---------------------------- MODULE Spec2Model ----------------------------
(***************************************************************************)
(* Model of the timing layer (src/src/time.h, src/src/time.cpp), the PRNG  *)
(* layer (src/src/prng.h) and their use by src/src/main_win32.cpp.         *)
(*                                                                         *)
(* A u64 is kept at its width: it is a little-endian sequence of eight     *)
(* bytes, and +, -, * wrap modulo 2^64 exactly as uint64_t does.  TLC's    *)
(* own integers are 32 bits wide and cannot hold 60000000000.              *)
(***************************************************************************)
EXTENDS Integers, Sequences, FiniteSets, TLC

(***************************************************************************)
(* u64 (core.h: using u64 = uint64_t)                                      *)
(***************************************************************************)
ByteBase == 2^8

U64Len == 64 \div 8

\* The eight bytes of f as a sequence, each byte computed once.
U64Bytes(f) == SubSeq(f, 1, U64Len)

\* The u64 that holds the small native number n (0 <= n < 2^31).
U64(n) ==
    U64Bytes([i \in 1..U64Len |->
                 IF i <= 4 THEN (n \div (ByteBase^(i-1))) % ByteBase ELSE 0])

U64Zero == U64(0)

U64One == U64(1)

\* a + b modulo 2^64.
U64Add(a, b) ==
    LET c[i \in 0..U64Len] ==
            IF i = 0 THEN 0 ELSE (a[i] + b[i] + c[i-1]) \div ByteBase
    IN  U64Bytes([i \in 1..U64Len |-> (a[i] + b[i] + c[i-1]) % ByteBase])

\* Whether a + b does not fit 64 bits.
U64AddOverflows(a, b) ==
    LET c[i \in 0..U64Len] ==
            IF i = 0 THEN 0 ELSE (a[i] + b[i] + c[i-1]) \div ByteBase
    IN  c[U64Len] = 1

\* a - b modulo 2^64.
U64Sub(a, b) ==
    LET w[i \in 0..U64Len] ==
            IF i = 0 THEN 0 ELSE IF a[i] - b[i] - w[i-1] < 0 THEN 1 ELSE 0
    IN  U64Bytes([i \in 1..U64Len |-> (a[i] - b[i] - w[i-1] + ByteBase) % ByteBase])

\* a < b, a <= b, a > b, a >= b on unsigned 64-bit values.
U64Less(a, b) ==
    LET d == {i \in 1..U64Len : a[i] # b[i]}
    IN  d # {} /\ LET m == CHOOSE i \in d : \A j \in d : j <= i IN a[m] < b[m]

U64Leq(a, b) == a = b \/ U64Less(a, b)

U64Greater(a, b) == U64Less(b, a)

U64Geq(a, b) == U64Leq(b, a)

\* a * b modulo 2^64 (schoolbook, byte by byte, the columns past 2^64 dropped).
RECURSIVE U64MulColumn(_, _, _, _)
U64MulColumn(a, b, k, i) ==
    IF i > k THEN 0 ELSE a[i] * b[k + 1 - i] + U64MulColumn(a, b, k, i + 1)

U64Mul(a, b) ==
    LET t[k \in 0..U64Len] ==
            IF k = 0 THEN 0 ELSE U64MulColumn(a, b, k, 1) + (t[k-1] \div ByteBase)
    IN  U64Bytes([k \in 1..U64Len |-> t[k] % ByteBase])

\* Bit i (0 = least significant) of a.
U64Bit(a, i) == (a[(i \div 8) + 1] \div (2^(i % 8))) % 2

\* a / b, the truncating unsigned division, b # 0: binary long division from
\* bit 63 down.  The loop state s is <<quotient, remainder, next bit>>.  The
\* remainder stays below b, so 2r + 1 may need a 65th bit: when doubling r
\* overflows, 2r + bit exceeds b and the wrapped difference is exact.
U64DivBit(a, b, s) ==
    LET i   == s[3]
        r2  == U64Add(U64Add(s[2], s[2]), U64(U64Bit(a, i)))
        ge  == U64Bit(s[2], 63) = 1 \/ U64Geq(r2, b)
    IN  << IF ge THEN [s[1] EXCEPT ![(i \div 8) + 1] = @ + 2^(i % 8)] ELSE s[1],
           IF ge THEN U64Sub(r2, b) ELSE r2,
           i - 1 >>

RECURSIVE U64DivLoop(_, _, _)
U64DivLoop(a, b, s) ==
    IF s[3] < 0 THEN s ELSE U64DivLoop(a, b, U64DivBit(a, b, s))

U64Div(a, b) == U64DivLoop(a, b, <<U64Zero, U64Zero, 63>>)[1]

\* k * 10^9 for a small native k: the literals 60000000000 and 3600000000000 of
\* time.h do not fit a 32-bit integer.
U64E9(k) == U64Mul(U64(k), U64(1000000000))

(***************************************************************************)
(* time.h: TimeUnit and the conversion helpers                             *)
(***************************************************************************)
NANOSECONDS == 0

MICROSECONDS == 1

MILLISECONDS == 2

SECONDS == 3

MINUTES == 4

HOURS == 5

\* The six enumerators.
TimeUnit == {NANOSECONDS, MICROSECONDS, MILLISECONDS, SECONDS, MINUTES, HOURS}

\* The values an object of the enumeration type can hold: the enumerators fit
\* three bits, so 6 and 7 are values of the type that name no enumerator.
TimeUnitValues == 0..7

\* What a call ends in: a returned value, or a thrown std::runtime_error.
Returned(v) == [kind |-> "value", value |-> v]

Thrown(what) == [kind |-> "runtime_error", what |-> what]

from_seconds(seconds, time_unit) ==
    CASE time_unit = NANOSECONDS  -> Returned(U64Mul(seconds, U64(1000000000)))
      [] time_unit = MICROSECONDS -> Returned(U64Mul(seconds, U64(1000000)))
      [] time_unit = MILLISECONDS -> Returned(U64Mul(seconds, U64(1000)))
      [] time_unit = SECONDS      -> Returned(seconds)
      [] time_unit = MINUTES      -> Returned(U64Div(seconds, U64(60)))
      [] time_unit = HOURS        -> Returned(U64Div(seconds, U64(3600)))
      [] OTHER                    -> Thrown("Unsupported time unit")

\* (a + b / 2) / b: a / b rounded to the nearest whole number.
U64DivRounding(a, b) == U64Div(U64Add(a, U64Div(b, U64(2))), b)

\* from_nanoseconds rounding to the nearest unit where the code truncates.
from_nanoseconds_rounding(nanos, time_unit) ==
    CASE time_unit = NANOSECONDS  -> Returned(nanos)
      [] time_unit = MICROSECONDS -> Returned(U64DivRounding(nanos, U64(1000)))
      [] time_unit = MILLISECONDS -> Returned(U64DivRounding(nanos, U64(1000000)))
      [] time_unit = SECONDS      -> Returned(U64DivRounding(nanos, U64(1000000000)))
      [] time_unit = MINUTES      -> Returned(U64DivRounding(nanos, U64E9(60)))
      [] time_unit = HOURS        -> Returned(U64DivRounding(nanos, U64E9(3600)))
      [] OTHER                    -> Thrown("Unsupported time unit")

from_nanoseconds(nanos, time_unit) ==
    CASE time_unit = NANOSECONDS  -> Returned(nanos)
      [] time_unit = MICROSECONDS -> Returned(U64Div(nanos, U64(1000)))
      [] time_unit = MILLISECONDS -> Returned(U64Div(nanos, U64(1000000)))
      [] time_unit = SECONDS      -> Returned(U64Div(nanos, U64(1000000000)))
      [] time_unit = MINUTES      -> Returned(U64Div(nanos, U64E9(60)))
      [] time_unit = HOURS        -> Returned(U64Div(nanos, U64E9(3600)))
      [] OTHER                    -> Thrown("Unsupported time unit")

\* to_nanoseconds with no default case: an unsupported unit falls through and
\* the value is returned as it came.
to_nanoseconds_no_default(units, time_unit) ==
    CASE time_unit = MICROSECONDS -> Returned(U64Mul(units, U64(1000)))
      [] time_unit = MILLISECONDS -> Returned(U64Mul(units, U64(1000000)))
      [] time_unit = SECONDS      -> Returned(U64Mul(units, U64(1000000000)))
      [] time_unit = MINUTES      -> Returned(U64Mul(units, U64E9(60)))
      [] time_unit = HOURS        -> Returned(U64Mul(units, U64E9(3600)))
      [] OTHER                    -> Returned(units)

to_nanoseconds(units, time_unit) ==
    CASE time_unit = NANOSECONDS  -> Returned(units)
      [] time_unit = MICROSECONDS -> Returned(U64Mul(units, U64(1000)))
      [] time_unit = MILLISECONDS -> Returned(U64Mul(units, U64(1000000)))
      [] time_unit = SECONDS      -> Returned(U64Mul(units, U64(1000000000)))
      [] time_unit = MINUTES      -> Returned(U64Mul(units, U64E9(60)))
      [] time_unit = HOURS        -> Returned(U64Mul(units, U64E9(3600)))
      [] OTHER                    -> Thrown("Unsupported time unit")

(***************************************************************************)
(* time.cpp: Instant and Duration.  Both wrap one u64 of nanoseconds and   *)
(* are modelled by that u64.  None of the callers below has a handler, so  *)
(* a helper's exception passes through them unchanged.                     *)
(***************************************************************************)
\* Instant::of and Duration::of: {to_nanoseconds(units, time_unit)}.
Instant_of(units, time_unit) == to_nanoseconds(units, time_unit)

Duration_of(units, time_unit) == to_nanoseconds(units, time_unit)

\* Instant::value and Duration::value: from_nanoseconds(ns, time_unit).
Instant_value(epoch_ns, time_unit) == from_nanoseconds(epoch_ns, time_unit)

Duration_value(duration_ns, time_unit) == from_nanoseconds(duration_ns, time_unit)

\* Duration::between as the signed difference end - start, wrapped into a u64.
Duration_between_signed(start, end) == U64Sub(end, start)

\* Duration::between(start, end).
Duration_between(start, end) ==
    IF U64Greater(end, start) THEN U64Sub(end, start) ELSE U64Sub(start, end)

(***************************************************************************)
(* State                                                                   *)
(***************************************************************************)
VARIABLES
    \* std::chrono::high_resolution_clock: the count, in nanoseconds since the
    \* clock's own origin, that a call of now() made in this state returns.
    clock,
    \* TickLimiter's fields.
    target_minimum_tick_duration_,
    last_tick_,
    \* The constructor's argument target_ticks_per_second.
    rate,
    \* The latest step: "ctor", "clock" (time passed), or the method called.
    lastOp,
    \* What the latest should_tick() and time_from_last_tick() returned.
    ret,
    elapsed,
    \* History: whether tick() was ever called, the clock value its latest call
    \* was made at, and last_tick_ as it was before that call.
    ticked,
    tickClock,
    prev_tick,
    \* History: whether a should_tick() returned true since the latest tick().
    dueSeen,
    \* History: whether should_tick() was called again after it returned true,
    \* with no tick() in between.
    dueAgain,
    \* History: what the first should_tick() returned when it was made before
    \* any tick(): "none" (not made), "true" or "false".
    firstRet,
    \* The number of times the clock moved on.
    advances,
    \* A program that calls the conversion helpers, Duration::between,
    \* Duration::of and Duration::value: the u64 it calls them with, what the
    \* latest call was and ended in, and whether the process is still alive.
    arg,
    out,
    running,
    \* PrngSource::instance()'s function-local static unique_ptr: nullptr, or
    \* the identity of the PrngSource it owns.
    instance,
    \* The PrngSource objects alive, and how many were ever constructed.
    live,
    built,
    \* The member gen_ of the PrngSource `instance` owns.
    gen_,
    \* The Prng<T> object the program holds: none (<<>>), or <<its dis_>>.
    prng,
    \* What the latest next() returned, and from which distribution.
    lastDraw,
    \* History: the object the latest and the first instance() call returned
    \* (nullptr: no call yet).
    returned,
    firstReturned,
    \* History: the run of draws since the latest set_fixed_seed (seed -1: the
    \* generator was never reseeded), and one earlier such run kept to compare.
    episode,
    kept,
    \* The number of next() and set_fixed_seed() calls made.
    prngSteps,
    \* _tWinMain's main loop: the statement it is at, the global g_run_game,
    \* the thread's message queue, and the locals screen_redraw_needed and delta.
    pc,
    g_run_game,
    queue,
    screen_redraw_needed,
    delta,
    \* History: how often game_update, game_render, tick() and
    \* screen_buffer_blit were called, and the calls of the current iteration
    \* in the order they were made.
    calls,
    iteration,
    \* History: the clock value time_from_last_tick() sampled for the latest
    \* delta, and the deltas game_update and game_render were called with.
    deltaClock,
    passed,
    \* History: whether the pump ever dequeued WM_QUIT, and how many messages
    \* were posted to the queue while the loop ran.
    quit_dequeued,
    posts,
    \* A program that holds several Prng<T> objects: their dis_ members, in
    \* the order the objects were created.
    prngs,
    \* History: the value the generator was last seeded with (fixed: by
    \* set_fixed_seed; prngs: how many Prng<T> objects existed then), and the
    \* draws made since, by any object, in the order they were made.
    seeding,
    draws,
    \* g_screen_buffer.width and .height, and the array g_particles.
    width,
    height,
    g_particles,
    \* History: whether particles_init ran, how often particles_update ran since,
    \* the particles as particles_init left them, and how many particles the
    \* latest particles_draw could not draw.
    initialised,
    updates,
    born,
    skipped

tickVars ==
    << clock, target_minimum_tick_duration_, last_tick_, rate, lastOp, ret,
       elapsed, ticked, tickClock, prev_tick, dueSeen, dueAgain, firstRet,
       advances >>

timeVars == << arg, out, running >>

prngVars ==
    << instance, live, built, gen_, prng, lastDraw, returned, firstReturned,
       episode, kept, prngSteps >>

mainVars ==
    << pc, g_run_game, queue, screen_redraw_needed, delta, calls, iteration,
       deltaClock, passed, quit_dequeued, posts >>

sharedVars == << prngs, seeding, draws >>

particleVars ==
    << width, height, g_particles, initialised, updates, born, skipped >>

vars == << tickVars, timeVars, prngVars, mainVars, sharedVars, particleVars >>

\* What the steps of each component leave alone.
restOfTick == << timeVars, prngVars, mainVars, sharedVars, particleVars >>

restOfTime == << tickVars, prngVars, mainVars, sharedVars, particleVars >>

restOfPrng == << tickVars, timeVars, mainVars, sharedVars, particleVars >>

restOfMain == << timeVars, prngVars, sharedVars, particleVars >>

restOfShared == << tickVars, timeVars, mainVars, particleVars >>

restOfParticles == << timeVars, mainVars, sharedVars >>

(***************************************************************************)
(* Bounds and inputs of the model                                          *)
(***************************************************************************)
\* The null value of a pointer; an object's identity is a number above it.
nullptr == 0

\* How many times the clock moves on in one run.
MaxAdvances == 3

\* The rates a TickLimiter is constructed with: main_win32.cpp's 30, and rates
\* whose interval is 10^9 (1), truncated (30), 1 (10^9) and 0 (above 10^9).
Rates == {1, 30, 1000000000, 2000000000}

\* The clock's value when the TickLimiter is constructed: the clock's origin
\* itself, and one day (86400 s) after it.
InitialClocks == {U64Zero, U64E9(86400)}

\* By how much the clock moves on in one step: 1 ns, 34 ms and, to reach both
\* sides of the limiter's threshold, one nanosecond less than its interval.
ClockSteps ==
    {U64One, U64(34000000)}
        \cup (IF U64Less(U64One, target_minimum_tick_duration_)
              THEN {U64Sub(target_minimum_tick_duration_, U64One)} ELSE {})

(***************************************************************************)
(* time.cpp: Instant::now, Duration::from, TickLimiter                     *)
(***************************************************************************)
\* Instant::now(): the clock's count, cast to u64.
Instant_now == clock

\* Duration::from(start).
Duration_from(start) == Duration_between(start, Instant_now)

\* The constructor dividing one millisecond, not one second, by the rate.
TickLimiter_of_millisecond(target_ticks_per_second) ==
    LET x == U64Div(to_nanoseconds(U64One, MILLISECONDS).value, target_ticks_per_second)
    IN  [ target_minimum_tick_duration_ |-> Duration_of(x, NANOSECONDS).value,
          last_tick_ |-> Instant_of(U64Zero, NANOSECONDS).value ]

\* TickLimiter::TickLimiter(target_ticks_per_second): the two fields it sets.
TickLimiter(target_ticks_per_second) ==
    LET x == U64Div(to_nanoseconds(U64One, SECONDS).value, target_ticks_per_second)
    IN  [ target_minimum_tick_duration_ |-> Duration_of(x, NANOSECONDS).value,
          last_tick_ |-> Instant_of(U64Zero, NANOSECONDS).value ]

\* should_tick() comparing with > where the code compares with >=.
should_tick_strict ==
    LET elapsed_ == Duration_from(last_tick_)
    IN  U64Greater(elapsed_, target_minimum_tick_duration_)

\* TickLimiter::should_tick().
should_tick ==
    \E elapsed_ \in {Duration_from(last_tick_)} :
        U64Geq(elapsed_, target_minimum_tick_duration_)

\* TickLimiter::time_from_last_tick().
time_from_last_tick == Duration_from(last_tick_)

\* No program of the timing helpers is running.
TimeIdle ==
    /\ arg = U64Zero
    /\ out = [op |-> "none"]
    /\ running = TRUE

\* No PrngSource exists and no Prng<T> was created: the state of the PRNG layer
\* when the process starts.
PrngIdle ==
    /\ instance = nullptr
    /\ live = {}
    /\ built = 0
    /\ gen_ = [seed |-> 0, pos |-> 0]
    /\ prng = << >>
    /\ lastDraw = [op |-> "none"]
    /\ returned = nullptr
    /\ firstReturned = nullptr
    /\ episode = [seed |-> -1, dis |-> << >>, values |-> << >>, mixed |-> FALSE]
    /\ kept = [seed |-> -1, dis |-> << >>, values |-> << >>, mixed |-> FALSE]
    /\ prngSteps = 0

MAX_PARTICLES == 100

\* Particle{}: every member value-initialised.
Particle ==
    [ x |-> 0, y |-> 0, color |-> [red |-> 0, green |-> 0, blue |-> 0],
      velocity_x |-> 0, velocity_y |-> 0, birth_time |-> U64Zero, flags |-> 0 ]

\* The statics g_screen_buffer{} and g_particles[MAX_PARTICLES] as the program
\* starts with them.
ParticlesIdle ==
    /\ width = 0
    /\ height = 0
    /\ g_particles = [i \in 1..MAX_PARTICLES |-> Particle]
    /\ initialised = FALSE
    /\ updates = 0
    /\ born = << >>
    /\ skipped = 0

\* The program holds no Prng<T> object and the generator was never seeded.
SharedIdle ==
    /\ prngs = << >>
    /\ seeding = [value |-> -1, fixed |-> FALSE, prngs |-> 0]
    /\ draws = << >>

\* _tWinMain has not entered its main loop: g_run_game{true}, no message
\* posted, no callback called.
MainIdle ==
    /\ pc = "while"
    /\ g_run_game = TRUE
    /\ queue = << >>
    /\ screen_redraw_needed = FALSE
    /\ delta = U64Zero
    /\ calls = [game_update |-> 0, game_render |-> 0, tick |-> 0,
                screen_buffer_blit |-> 0]
    /\ iteration = << >>
    /\ deltaClock = U64Zero
    /\ passed = [game_update |-> U64Zero, game_render |-> U64Zero]
    /\ quit_dequeued = FALSE
    /\ posts = 0

\* A TickLimiter of main_win32.cpp's rate that nothing calls.
TickIdle ==
    /\ rate = 30
    /\ clock = U64Zero
    /\ target_minimum_tick_duration_ =
           TickLimiter(U64(30)).target_minimum_tick_duration_
    /\ last_tick_ = TickLimiter(U64(30)).last_tick_
    /\ lastOp = "ctor"
    /\ ret = FALSE
    /\ elapsed = U64Zero
    /\ ticked = FALSE
    /\ tickClock = U64Zero
    /\ prev_tick = U64Zero
    /\ dueSeen = FALSE
    /\ dueAgain = FALSE
    /\ firstRet = "none"
    /\ advances = 0

\* The state right after `TickLimiter tick_limiter{n}`.
InitTick ==
    /\ TimeIdle
    /\ PrngIdle
    /\ MainIdle
    /\ SharedIdle
    /\ ParticlesIdle
    /\ rate \in Rates
    /\ clock \in InitialClocks
    /\ target_minimum_tick_duration_ =
           TickLimiter(U64(rate)).target_minimum_tick_duration_
    /\ last_tick_ = TickLimiter(U64(rate)).last_tick_
    /\ lastOp = "ctor"
    /\ ret = FALSE
    /\ elapsed = U64Zero
    /\ ticked = FALSE
    /\ tickClock = U64Zero
    /\ prev_tick = U64Zero
    /\ dueSeen = FALSE
    /\ dueAgain = FALSE
    /\ firstRet = "none"
    /\ advances = 0

\* Time passes: the monotonic clock moves on, and never back.
AdvanceClock ==
    /\ advances < MaxAdvances
    /\ \E d \in ClockSteps : clock' = U64Add(clock, d)
    /\ advances' = advances + 1
    /\ lastOp' = "clock"
    /\ UNCHANGED << target_minimum_tick_duration_, last_tick_, rate, ret, elapsed,
                    ticked, tickClock, prev_tick, dueSeen, dueAgain, firstRet >>
    /\ UNCHANGED restOfTick

\* should_tick() that records the tick itself when it returns true.
ShouldTickRecording ==
    /\ ret' = should_tick
    /\ lastOp' = "should_tick"
    /\ last_tick_' = IF should_tick THEN Instant_now ELSE last_tick_
    /\ dueSeen' = (dueSeen \/ should_tick)
    /\ dueAgain' = (dueAgain \/ dueSeen)
    /\ firstRet' = IF firstRet = "none" /\ ~ticked
                   THEN (IF should_tick THEN "true" ELSE "false")
                   ELSE firstRet
    /\ UNCHANGED << clock, target_minimum_tick_duration_, rate,
                    elapsed, ticked, tickClock, prev_tick, advances >>
    /\ UNCHANGED restOfTick

\* A call of should_tick(): const, it returns and changes no field.
ShouldTick ==
    /\ ret' = should_tick
    /\ lastOp' = "should_tick"
    /\ dueSeen' = (dueSeen \/ should_tick)
    /\ dueAgain' = (dueAgain \/ dueSeen)
    /\ firstRet' = IF firstRet = "none" /\ ~ticked
                   THEN (IF should_tick THEN "true" ELSE "false")
                   ELSE firstRet
    /\ UNCHANGED << clock, target_minimum_tick_duration_, last_tick_, rate,
                    elapsed, ticked, tickClock, prev_tick, advances >>
    /\ UNCHANGED restOfTick

\* A call of time_from_last_tick(): const as well.
TimeFromLastTick ==
    /\ elapsed' = time_from_last_tick
    /\ lastOp' = "time_from_last_tick"
    /\ UNCHANGED << clock, target_minimum_tick_duration_, last_tick_, rate, ret,
                    ticked, tickClock, prev_tick, dueSeen, dueAgain, firstRet,
                    advances >>
    /\ UNCHANGED restOfTick

\* tick() storing the time since the last tick in place of the time of this one.
TickStoringElapsed ==
    /\ last_tick_' = Duration_from(last_tick_)
    /\ lastOp' = "tick"
    /\ ticked' = TRUE
    /\ tickClock' = clock
    /\ prev_tick' = last_tick_
    /\ dueSeen' = FALSE
    /\ dueAgain' = FALSE
    /\ UNCHANGED << clock, target_minimum_tick_duration_, rate, ret, elapsed,
                    firstRet, advances >>
    /\ UNCHANGED restOfTick

\* A call of tick(): last_tick_ = Instant::now().
Tick ==
    /\ last_tick_' = Instant_now
    /\ lastOp' = "tick"
    /\ ticked' = TRUE
    /\ tickClock' = clock
    /\ prev_tick' = last_tick_
    /\ dueSeen' = FALSE
    /\ dueAgain' = FALSE
    /\ UNCHANGED << clock, target_minimum_tick_duration_, rate, ret, elapsed,
                    firstRet, advances >>
    /\ UNCHANGED restOfTick

NextTick ==
    \/ AdvanceClock
    \/ ShouldTick
    \/ TimeFromLastTick
    \/ Tick

SpecTick == InitTick /\ [][NextTick]_vars

(***************************************************************************)
(* Claims about the TickLimiter, checked under SpecTick                    *)
(***************************************************************************)
\* floor(10^9 / n) for the rate n the limiter was constructed with.
Interval == U64(1000000000 \div rate)

\* Whether the clock has reached t + Interval, t the clock value of the latest
\* tick(); the sum is the mathematical one, a sum past 2^64 is never reached.
DeadlineReached ==
    /\ ~U64AddOverflows(tickClock, Interval)
    /\ U64Geq(clock, U64Add(tickClock, Interval))

\* C1: after a tick() taken at clock value t, a should_tick() evaluated before
\* t + floor(10^9 / n) returns false and one evaluated at or after it (with no
\* tick() in between) returns true.
C1_ShouldTickAfterTick ==
    (lastOp = "should_tick" /\ ticked) => (ret <=> DeadlineReached)

\* C1's case: rate 30, a should_tick() exactly floor(10^9 / 30) ns after tick().
C1_Witness ==
    /\ lastOp = "should_tick"
    /\ ticked
    /\ rate = 30
    /\ clock = U64Add(tickClock, U64(33333333))
    /\ ret

\* C2: the first should_tick() of a fresh limiter, no tick() before it, returns
\* true, whatever the clock's value.
C2_FirstShouldTickTrue == firstRet # "false"

\* The limiter is due: the time from last_tick to now is at least target.
DueAt(last_tick, now, target) == U64Geq(Duration_between(last_tick, now), target)

\* C3: should_tick() and time_from_last_tick() change neither field; once a
\* should_tick() returned true, every later one returns true until tick(); and
\* only tick() takes the limiter out of the due state.
C3_BusyTicking ==
    [][ /\ lastOp' \in {"should_tick", "time_from_last_tick"}
            => /\ last_tick_' = last_tick_
               /\ target_minimum_tick_duration_' = target_minimum_tick_duration_
        /\ (dueSeen /\ lastOp' = "should_tick") => ret'
        /\ ( /\ DueAt(last_tick_, clock, target_minimum_tick_duration_)
             /\ ~DueAt(last_tick_', clock', target_minimum_tick_duration_') )
            => lastOp' = "tick" ]_vars

\* C3's case: should_tick() called again after it returned true, no tick()
\* in between, and time_from_last_tick() called in that stretch too.
C3_Witness ==
    /\ lastOp = "should_tick"
    /\ dueAgain
    /\ ret
    /\ ticked
    /\ elapsed # U64Zero

\* C4: last_tick_ starts at 0 and never decreases; only tick() changes it, to
\* the clock's sample.
C4_LastTickMonotonic ==
    [][ /\ lastOp = "ctor" => last_tick_ = U64Zero
        /\ U64Leq(last_tick_, last_tick_')
        /\ last_tick_' # last_tick_ => (lastOp' = "tick" /\ last_tick_' = clock) ]_vars

\* C4's case: a second tick(), taken later than the first.
C4_Witness ==
    /\ lastOp = "tick"
    /\ prev_tick # U64Zero
    /\ U64Less(prev_tick, last_tick_)

(***************************************************************************)
(* A program of the conversion helpers and of Duration                     *)
(***************************************************************************)
\* How many multiples of each unit the sampled u64 values reach.
MaxMultiple == 1

\* The u64 values the helpers are called with: around each multiple of each
\* unit's length (one less, exact, one more), and as far below 2^64 (0 - v
\* wraps), so that 0, 1, 2^64 - 1 and both sides of every truncation occur.
NearMultiples ==
    { U64Add(U64Mul(U64(m), to_nanoseconds(U64One, U).value), off) :
        m \in 0..MaxMultiple, U \in TimeUnit,
        off \in {U64Sub(U64Zero, U64One), U64Zero, U64One} }

Samples == NearMultiples \cup { U64Sub(U64Zero, v) : v \in NearMultiples }

\* No function of the repository has a try block: an exception that leaves a
\* call leaves _tWinMain too, and the process ends in std::terminate.  The
\* process lives on exactly when the call returned.
SurvivesCall(result) == result.kind = "value"

Helpers == {"from_seconds", "from_nanoseconds", "to_nanoseconds"}

Helper(name, value, time_unit) ==
    CASE name = "from_seconds"     -> from_seconds(value, time_unit)
      [] name = "from_nanoseconds" -> from_nanoseconds(value, time_unit)
      [] name = "to_nanoseconds"   -> to_nanoseconds(value, time_unit)

InitTime ==
    /\ arg \in Samples
    /\ out = [op |-> "none"]
    /\ running = TRUE
    /\ TickIdle
    /\ PrngIdle
    /\ MainIdle
    /\ SharedIdle
    /\ ParticlesIdle

\* Duration::between(Instant a, Instant b) and Duration::between(b, a).
Between ==
    /\ running
    /\ out.op = "none"
    /\ \E b \in Samples :
          out' = [ op |-> "between", a |-> arg, b |-> b,
                   ab |-> Duration_between(arg, b),
                   ba |-> Duration_between(b, arg) ]
    /\ UNCHANGED << arg, running >>
    /\ UNCHANGED restOfTime

\* Duration::of(d.value(U), U).nanosecond_value() for the Duration d of arg ns.
RoundTrip ==
    /\ running
    /\ out.op = "none"
    /\ \E U \in TimeUnitValues :
          LET v == Duration_value(arg, U)
              r == IF v.kind = "value" THEN Duration_of(v.value, U) ELSE v
          IN  /\ out' = [op |-> "roundtrip", d |-> arg, unit |-> U, result |-> r]
              /\ running' = SurvivesCall(r)
    /\ UNCHANGED arg
    /\ UNCHANGED restOfTime

\* A call of one of the three conversion helpers.
Convert ==
    /\ running
    /\ out.op = "none"
    /\ \E h \in Helpers, U \in TimeUnitValues :
          LET r == Helper(h, arg, U)
          IN  /\ out' = [op |-> h, value |-> arg, unit |-> U, result |-> r]
              /\ running' = SurvivesCall(r)
    /\ UNCHANGED arg
    /\ UNCHANGED restOfTime

\* The program, still alive after a call, goes on to its next call.
NextCall ==
    /\ running
    /\ out.op # "none"
    /\ arg' \in Samples
    /\ out' = [op |-> "none"]
    /\ UNCHANGED running
    /\ UNCHANGED restOfTime

NextTime ==
    \/ Between
    \/ RoundTrip
    \/ Convert
    \/ NextCall

SpecTime == InitTime /\ [][NextTime]_vars

(***************************************************************************)
(* Claims about Duration and the helpers, checked under SpecTime           *)
(***************************************************************************)
\* d is |a - b|: the smaller of a and b plus d is the larger, with no carry.
IsAbsDiff(d, a, b) ==
    LET lo == IF U64Less(a, b) THEN a ELSE b
        hi == IF U64Less(a, b) THEN b ELSE a
    IN  ~U64AddOverflows(lo, d) /\ U64Add(lo, d) = hi

\* C5: Duration::between(a, b) = Duration::between(b, a) = |a.ns - b.ns|.
C5_BetweenSymmetric ==
    out.op = "between"
        => /\ out.ab = out.ba
           /\ IsAbsDiff(out.ab, out.a, out.b)
           /\ (out.a = out.b => out.ab = U64Zero)

\* C5's case: two different instants more than 2^63 ns apart, the later first.
C5_Witness ==
    /\ out.op = "between"
    /\ U64Less(out.b, out.a)
    /\ U64Bit(out.ab, 63) = 1

\* The number of nanoseconds in one unit U.
NanosIn(U) ==
    CASE U = NANOSECONDS  -> U64One
      [] U = MICROSECONDS -> U64(1000)
      [] U = MILLISECONDS -> U64(1000000)
      [] U = SECONDS      -> U64(1000000000)
      [] U = MINUTES      -> U64E9(60)
      [] U = HOURS        -> U64E9(3600)

\* C6: r = Duration::of(d.value(U), U).nanosecond_value() is at most d, less
\* than one U below d, and d itself for NANOSECONDS.
C6_RoundTripFloor ==
    (out.op = "roundtrip" /\ out.unit \in TimeUnit)
        => /\ out.result.kind = "value"
           /\ U64Leq(out.result.value, out.d)
           /\ U64Less(U64Sub(out.d, out.result.value), NanosIn(out.unit))
           /\ (out.unit = NANOSECONDS => out.result.value = out.d)

\* C6's case: a duration above 2^63 ns that is no whole number of hours.
C6_Witness ==
    /\ out.op = "roundtrip"
    /\ out.unit = HOURS
    /\ U64Bit(out.d, 63) = 1
    /\ out.result.kind = "value"
    /\ out.result.value # out.d

MaxSeed == 1

Seeds == 0..MaxSeed

\* How many next() and set_fixed_seed() calls one run makes.
MaxPrngSteps == 6

\* std::numeric_limits<s16>::min() and max().
T_min == -(2^15)

T_max == 2^15 - 1

\* std::mt19937_64: the engine's state is fixed by the value it was seeded with
\* and the number of outputs taken since; its output is a fixed function of
\* both, here 16 bits of it.
mt19937_64(value) == [seed |-> value, pos |-> 0]

mt19937_64_output(gen) ==
    ((gen.seed + 1) * 40503 + (gen.pos + 1) * (gen.seed + 3) * 25173) % (2^16)

mt19937_64_advance(gen) == [gen EXCEPT !.pos = @ + 1]

\* std::uniform_int_distribution<T> dis_(a, b) applied to the engine: the values
\* dis_(gen) can return.  It requires a <= b; with a > b the behaviour is
\* undefined and any value of T may come back.
uniform_int_distribution(dis, gen) ==
    IF dis.a <= dis.b
    THEN {dis.a + (mt19937_64_output(gen) % (dis.b - dis.a + 1))}
    ELSE {T_min, dis.b - 1, dis.a + 1, T_max}

\* Prng(T min, T max) : dis_(min, max).
Prng(min, max) == [a |-> min, b |-> max]

\* create passing its arguments on in the order it received them.
create_swapped(max, min) == Prng(max, min)

\* Prng<T>::create(T max, T min = 0).
create(max, min) == Prng(min, max)

\* Prng<T>::create_with_natural_limits().
create_with_natural_limits == Prng(T_min, T_max)

\* The <<max, min>> pairs create is called with, min <= max: min = max, the
\* byte range, and main_win32.cpp's velocity range.
CreateArguments == { <<5, 5>>, <<255, 0>>, <<2, -2>> }

\* instance() constructing a new PrngSource on every call.
instance_always_new(entropy) ==
    [ instance |-> built + 1,
      live     |-> (live \ {instance}) \cup {built + 1},
      built    |-> built + 1,
      gen      |-> mt19937_64(entropy) ]

\* PrngSource::instance(): the static pointer, the live objects and the owned
\* generator after the call; the object returned is the one `instance` owns.
\* A PrngSource is constructed, gen_(rd_()), only while the pointer is null.
instance_(entropy) ==
    IF instance = nullptr
    THEN [ instance |-> built + 1,
           live     |-> live \cup {built + 1},
           built    |-> built + 1,
           gen      |-> mt19937_64(entropy) ]
    ELSE [ instance |-> instance, live |-> live, built |-> built, gen |-> gen_ ]

\* set_fixed_seed that leaves the generator as it is.
set_fixed_seed_ignored(gen, seed) == gen

\* PrngSource::set_fixed_seed(seed): gen_.seed(seed).
set_fixed_seed(gen, seed) == mt19937_64(seed)

InitPrng ==
    /\ PrngIdle
    /\ TickIdle
    /\ TimeIdle
    /\ MainIdle
    /\ SharedIdle
    /\ ParticlesIdle

\* Prng<T>::create(max, min).
Create ==
    /\ \E p \in CreateArguments : prng' = << create(p[1], p[2]) >>
    /\ UNCHANGED << instance, live, built, gen_, lastDraw, returned,
                    firstReturned, episode, kept, prngSteps >>
    /\ UNCHANGED restOfPrng

\* Prng<T>::create_with_natural_limits().
CreateWithNaturalLimits ==
    /\ prng' = << create_with_natural_limits >>
    /\ UNCHANGED << instance, live, built, gen_, lastDraw, returned,
                    firstReturned, episode, kept, prngSteps >>
    /\ UNCHANGED restOfPrng

\* The run of draws after one more draw of v from dis: it is kept while all
\* its draws come from distributions of the same bounds.
EpisodeAfter(dis, v) ==
    IF episode.mixed \/ (episode.dis # << >> /\ episode.dis # << dis >>)
    THEN [episode EXCEPT !.dis = << >>, !.values = << >>, !.mixed = TRUE]
    ELSE [episode EXCEPT !.dis = << dis >>, !.values = Append(@, v)]

\* Prng<T>::next(): dis_(PrngSource::instance().gen_).
PrngNext ==
    /\ prng # << >>
    /\ prngSteps < MaxPrngSteps
    /\ \E entropy \in Seeds :
          LET source == instance_(entropy)
          IN  /\ instance' = source.instance
              /\ live' = source.live
              /\ built' = source.built
              /\ returned' = source.instance
              /\ firstReturned' =
                     IF firstReturned = nullptr THEN source.instance
                     ELSE firstReturned
              /\ \E v \in uniform_int_distribution(prng[1], source.gen) :
                    /\ lastDraw' = [op |-> "next", dis |-> prng[1], value |-> v]
                    /\ episode' = EpisodeAfter(prng[1], v)
              /\ gen_' = mt19937_64_advance(source.gen)
    /\ prngSteps' = prngSteps + 1
    /\ UNCHANGED << prng, kept >>
    /\ UNCHANGED restOfPrng

\* PrngSource::instance().set_fixed_seed(seed).  The run of draws that ends
\* here is, or is not, the one kept to compare later runs with.
SetFixedSeed ==
    /\ prngSteps < MaxPrngSteps
    /\ \E entropy \in Seeds, seed \in Seeds :
          LET source == instance_(entropy)
          IN  /\ instance' = source.instance
              /\ live' = source.live
              /\ built' = source.built
              /\ returned' = source.instance
              /\ firstReturned' =
                     IF firstReturned = nullptr THEN source.instance
                     ELSE firstReturned
              /\ gen_' = set_fixed_seed(source.gen, seed)
              /\ episode' = [seed |-> seed, dis |-> << >>, values |-> << >>,
                             mixed |-> FALSE]
    /\ kept' \in {kept} \cup
                 (IF episode.seed >= 0 /\ ~episode.mixed THEN {episode} ELSE {})
    /\ prngSteps' = prngSteps + 1
    /\ UNCHANGED << prng, lastDraw >>
    /\ UNCHANGED restOfPrng

NextPrng ==
    \/ Create
    \/ CreateWithNaturalLimits
    \/ PrngNext
    \/ SetFixedSeed

SpecPrng == InitPrng /\ [][NextPrng]_vars

(***************************************************************************)
(* Claims about the PRNG layer, checked under SpecPrng                     *)
(***************************************************************************)
\* C7: every next() of a Prng<T> built by create(max, min), min <= max, or by
\* create_with_natural_limits() returns v with min <= v <= max, whatever was
\* drawn or reseeded before.
C7_NextWithinBounds ==
    lastDraw.op = "next"
        => /\ lastDraw.dis \in
                 { [a |-> p[2], b |-> p[1]] : p \in CreateArguments }
                     \cup { [a |-> T_min, b |-> T_max] }
           /\ lastDraw.dis.a <= lastDraw.value
           /\ lastDraw.value <= lastDraw.dis.b

\* C7's case: a draw from the byte range [0, 255] after a reseed and earlier
\* draws, that is not the lower bound.
C7_Witness ==
    /\ lastDraw.op = "next"
    /\ lastDraw.dis = [a |-> 0, b |-> 255]
    /\ lastDraw.value > 0
    /\ episode.seed >= 0
    /\ prngSteps >= 4

\* The first n values of run e.
Prefix(e, n) == SubSeq(e.values, 1, n)

\* The shorter of the two lengths.
Shorter(e, f) ==
    IF Len(e.values) <= Len(f.values) THEN Len(e.values) ELSE Len(f.values)

\* C8: two runs of draws that each follow a set_fixed_seed with the same seed
\* and draw from a Prng<T> of the same bounds yield the same values, draw for
\* draw, whatever was drawn before either reseed.
C8_ReseedDeterministic ==
    (kept.seed >= 0 /\ kept.seed = episode.seed /\ ~episode.mixed
        /\ kept.dis = episode.dis)
        => Prefix(kept, Shorter(kept, episode)) = Prefix(episode, Shorter(kept, episode))

\* C8's case: a second run of two draws with the seed of a kept run of two
\* draws, from the same non-constant distribution.
C8_Witness ==
    /\ kept.seed >= 0
    /\ kept.seed = episode.seed
    /\ kept.dis = episode.dis
    /\ Len(kept.values) >= 2
    /\ Len(episode.values) >= 2
    /\ kept.values[1] # kept.values[2]

\* C9: there is never more than one live PrngSource; before the first
\* instance() call there is none, after it exactly one, the object every
\* instance() call returns, constructed once and never replaced.
C9_SingleSource ==
    /\ Cardinality(live) <= 1
    /\ firstReturned = nullptr => (live = {} /\ built = 0 /\ instance = nullptr)
    /\ firstReturned # nullptr
          => /\ live = {firstReturned}
             /\ instance = firstReturned
             /\ returned = firstReturned
             /\ built = 1

\* C9's case: instance() called at least three times.
C9_Witness ==
    /\ prngSteps >= 3
    /\ returned # nullptr
    /\ returned = firstReturned

(***************************************************************************)
(* main_win32.cpp: the message pump and _tWinMain's main loop                *)
(***************************************************************************)
max_events_per_cycle == 20

\* The messages told apart: WM_QUIT (the pump's own case), WM_CLOSE (the
\* window procedure's own case) and any other message.
Messages == {"WM_QUIT", "WM_CLOSE", "WM_OTHER"}

\* How many messages wait in the queue when the loop is entered, at most, and
\* how many are posted while it runs.
MaxBacklog == 21

MaxPosts == 2

\* How often the clock moves on while the loop runs.
MaxLoopAdvances == 2

\* The queue when the loop is entered: empty, or a backlog of other messages
\* one short of, equal to, or longer than the pump's limit.
InitialQueues ==
    { [i \in 1..n |-> "WM_OTHER"] :
        n \in {0, max_events_per_cycle - 1, max_events_per_cycle, MaxBacklog} }

\* PostQuitMessage(0): WM_QUIT joins the thread's queue.
PostQuitMessage(q) == Append(q, "WM_QUIT")

\* window_procedure(window, message, wParam, lParam) with q the messages still
\* queued: WM_CLOSE posts the quit message, DefWindowProc leaves q as it is.
window_procedure(message, q) ==
    IF message = "WM_CLOSE" THEN PostQuitMessage(q) ELSE q

\* The pump's loop body handing WM_QUIT to the window procedure like any other
\* message.
pump_message_dispatching_quit(s) ==
    [ i          |-> s.i + 1,
      queue      |-> window_procedure(Head(s.queue), Tail(s.queue)),
      g_run_game |-> s.g_run_game,
      quit       |-> s.quit ]

\* One pass of win32_message_pump's loop body with a message to take:
\* PeekMessage(PM_REMOVE) dequeues it; WM_QUIT clears g_run_game (its break
\* leaves the switch, not the loop); any other message is dispatched.
pump_message(s) ==
    LET message == Head(s.queue)
    IN  IF message = "WM_QUIT"
        THEN [ i |-> s.i + 1, queue |-> Tail(s.queue), g_run_game |-> FALSE,
               quit |-> TRUE ]
        ELSE [ i |-> s.i + 1, queue |-> window_procedure(message, Tail(s.queue)),
               g_run_game |-> s.g_run_game, quit |-> s.quit ]

\* The pump's loop at its test: i, the queue, g_run_game, and whether WM_QUIT
\* was dequeued so far.
PumpStates ==
    [ i : 0..max_events_per_cycle, queue : Seq(Messages), g_run_game : BOOLEAN,
      quit : BOOLEAN ]

\* for (u16 i = 0; i < max_events_per_cycle; ++i), left early when PeekMessage
\* finds no message.
win32_message_pump_loop[s \in PumpStates] ==
    IF s.i < max_events_per_cycle /\ s.queue # << >>
    THEN win32_message_pump_loop[pump_message(s)]
    ELSE s

\* win32_message_pump(): the queue and g_run_game it leaves, and whether it
\* dequeued WM_QUIT.
win32_message_pump ==
    win32_message_pump_loop[
        [i |-> 0, queue |-> queue, g_run_game |-> g_run_game, quit |-> FALSE]]

\* The history of the limiter's calls, which the main loop does not keep.
limiterHistory ==
    << lastOp, ret, elapsed, ticked, tickClock, prev_tick, dueSeen, dueAgain,
       firstRet, advances >>

\* The state when _tWinMain reaches `while (g_run_game)`, right after
\* `TickLimiter tick_limiter{30}`.
InitMain ==
    /\ TimeIdle
    /\ PrngIdle
    /\ SharedIdle
    /\ ParticlesIdle
    /\ rate = 30
    /\ clock \in InitialClocks
    /\ target_minimum_tick_duration_ =
           TickLimiter(U64(rate)).target_minimum_tick_duration_
    /\ last_tick_ = TickLimiter(U64(rate)).last_tick_
    /\ lastOp = "ctor"
    /\ ret = FALSE
    /\ elapsed = U64Zero
    /\ ticked = FALSE
    /\ tickClock = U64Zero
    /\ prev_tick = U64Zero
    /\ dueSeen = FALSE
    /\ dueAgain = FALSE
    /\ firstRet = "none"
    /\ advances = 0
    /\ pc = "while"
    /\ g_run_game = TRUE
    /\ queue \in InitialQueues
    /\ screen_redraw_needed = FALSE
    /\ delta = U64Zero
    /\ calls = [game_update |-> 0, game_render |-> 0, tick |-> 0,
                screen_buffer_blit |-> 0]
    /\ iteration = << >>
    /\ deltaClock = U64Zero
    /\ passed = [game_update |-> U64Zero, game_render |-> U64Zero]
    /\ quit_dequeued = FALSE
    /\ posts = 0

\* The system or another thread posts a message while the loop runs.
PostMessage ==
    /\ pc # "return"
    /\ posts < MaxPosts
    /\ \E message \in Messages : queue' = Append(queue, message)
    /\ posts' = posts + 1
    /\ UNCHANGED << pc, g_run_game, screen_redraw_needed, delta, calls,
                    iteration, deltaClock, passed, quit_dequeued >>
    /\ UNCHANGED << tickVars, restOfMain >>

\* while (g_run_game): the next iteration starts, or the loop is left and
\* _tWinMain returns 0.
LoopTest ==
    /\ pc = "while"
    /\ pc' = IF g_run_game THEN "pump" ELSE "return"
    /\ iteration' = IF g_run_game THEN << >> ELSE iteration
    /\ UNCHANGED << g_run_game, queue, screen_redraw_needed, delta, calls,
                    deltaClock, passed, quit_dequeued, posts >>
    /\ UNCHANGED << tickVars, restOfMain >>

\* win32_message_pump();
MessagePump ==
    /\ pc = "pump"
    /\ queue' = win32_message_pump.queue
    /\ g_run_game' = win32_message_pump.g_run_game
    /\ quit_dequeued' = (quit_dequeued \/ win32_message_pump.quit)
    /\ iteration' = Append(iteration, "win32_message_pump")
    /\ pc' = "gate"
    /\ UNCHANGED << screen_redraw_needed, delta, calls, deltaClock, passed, posts >>
    /\ UNCHANGED << tickVars, restOfMain >>

\* bool screen_redraw_needed = false; if (tick_limiter.should_tick()) { ... }
Gate ==
    /\ pc = "gate"
    /\ screen_redraw_needed' = FALSE
    /\ \E passes \in {should_tick} :
          /\ iteration' = Append(iteration, IF passes THEN "should_tick: true"
                                                      ELSE "should_tick: false")
          /\ pc' = IF passes THEN "delta" ELSE "redraw"
    /\ UNCHANGED << g_run_game, queue, delta, calls, deltaClock, passed,
                    quit_dequeued, posts >>
    /\ UNCHANGED << tickVars, restOfMain >>

\* auto delta = tick_limiter.time_from_last_tick();
Delta ==
    /\ pc = "delta"
    /\ delta' = time_from_last_tick
    /\ deltaClock' = clock
    /\ iteration' = Append(iteration, "time_from_last_tick")
    /\ pc' = "update"
    /\ UNCHANGED << g_run_game, queue, screen_redraw_needed, calls, passed,
                    quit_dequeued, posts >>
    /\ UNCHANGED << tickVars, restOfMain >>

\* game_update(delta);
GameUpdate ==
    /\ pc = "update"
    /\ passed' = [passed EXCEPT !.game_update = delta]
    /\ calls' = [calls EXCEPT !.game_update = @ + 1]
    /\ iteration' = Append(iteration, "game_update")
    /\ pc' = "render"
    /\ UNCHANGED << g_run_game, queue, screen_redraw_needed, delta, deltaClock,
                    quit_dequeued, posts >>
    /\ UNCHANGED << tickVars, restOfMain >>

\* game_render(delta, g_screen_buffer);
GameRender ==
    /\ pc = "render"
    /\ passed' = [passed EXCEPT !.game_render = delta]
    /\ calls' = [calls EXCEPT !.game_render = @ + 1]
    /\ iteration' = Append(iteration, "game_render")
    /\ pc' = "tick"
    /\ UNCHANGED << g_run_game, queue, screen_redraw_needed, delta, deltaClock,
                    quit_dequeued, posts >>
    /\ UNCHANGED << tickVars, restOfMain >>

\* tick_limiter.tick(); screen_redraw_needed = true;
LoopTick ==
    /\ pc = "tick"
    /\ last_tick_' = Instant_now
    /\ screen_redraw_needed' = TRUE
    /\ calls' = [calls EXCEPT !.tick = @ + 1]
    /\ iteration' = Append(iteration, "tick")
    /\ pc' = "redraw"
    /\ UNCHANGED << g_run_game, queue, delta, deltaClock, passed,
                    quit_dequeued, posts >>
    /\ UNCHANGED << clock, target_minimum_tick_duration_, rate, limiterHistory >>
    /\ UNCHANGED restOfMain

\* The redraw blitting whether or not a tick was accepted.
RedrawAlways ==
    /\ pc = "redraw"
    /\ calls' = [calls EXCEPT !.screen_buffer_blit = @ + 1]
    /\ iteration' = Append(iteration, "screen_buffer_blit")
    /\ pc' = "while"
    /\ UNCHANGED << g_run_game, queue, screen_redraw_needed, delta, deltaClock,
                    passed, quit_dequeued, posts >>
    /\ UNCHANGED << tickVars, restOfMain >>

\* if (screen_redraw_needed) { GetDC; screen_buffer_blit(...); ReleaseDC; },
\* the end of the loop's body.
Redraw ==
    /\ pc = "redraw"
    /\ calls' = IF screen_redraw_needed
                THEN [calls EXCEPT !.screen_buffer_blit = @ + 1] ELSE calls
    /\ iteration' = IF screen_redraw_needed
                    THEN Append(iteration, "screen_buffer_blit") ELSE iteration
    /\ pc' = "while"
    /\ UNCHANGED << g_run_game, queue, screen_redraw_needed, delta, deltaClock,
                    passed, quit_dequeued, posts >>
    /\ UNCHANGED << tickVars, restOfMain >>

\* The steps of the thread that runs _tWinMain.
NextLoop ==
    \/ LoopTest
    \/ MessagePump
    \/ Gate
    \/ Delta
    \/ GameUpdate
    \/ GameRender
    \/ LoopTick
    \/ Redraw

\* Time passes while the loop runs, at any point of an iteration.
ClockMoves ==
    /\ advances < MaxLoopAdvances
    /\ AdvanceClock

NextMain ==
    \/ NextLoop
    \/ ClockMoves
    \/ PostMessage

SpecMain == InitMain /\ [][NextMain]_vars

\* Time passes between two iterations, one frame of 34 ms at a time.
FrameElapses ==
    /\ pc = "while"
    /\ advances < MaxAdvances
    /\ clock' = U64Add(clock, U64(34000000))
    /\ advances' = advances + 1
    /\ lastOp' = "clock"
    /\ UNCHANGED << target_minimum_tick_duration_, last_tick_, rate, ret, elapsed,
                    ticked, tickClock, prev_tick, dueSeen, dueAgain, firstRet >>
    /\ UNCHANGED << mainVars, restOfMain >>

\* The loop with the clock moving on in whole frames only: whether and when
\* the loop is left depends on the clock through the gate alone.
NextMainFrames ==
    \/ NextLoop
    \/ FrameElapses
    \/ PostMessage

\* The thread that runs _tWinMain is scheduled again and again: while the loop
\* has a next statement, it is executed at some time.  Nothing is assumed of
\* how often a frame elapses or a message is posted.
SpecMainFair == InitMain /\ [][NextMainFrames]_vars /\ WF_vars(NextLoop)

(***************************************************************************)
(* Claims about the main loop, checked under SpecMain                      *)
(***************************************************************************)
\* The calls of an iteration whose gate passed, and of one whose gate did not.
AcceptedIteration ==
    << "win32_message_pump", "should_tick: true", "time_from_last_tick",
       "game_update", "game_render", "tick", "screen_buffer_blit" >>

RejectedIteration == << "win32_message_pump", "should_tick: false" >>

\* p is the beginning of q.
IsPrefix(p, q) == Len(p) <= Len(q) /\ p = SubSeq(q, 1, Len(p))

\* C11: every iteration runs the message pump, then the should_tick() gate;
\* with the gate true it goes on to game_update, game_render, one tick() and one
\* blit, in that order, with the gate false to none of them; so whenever an
\* iteration is over the four calls were made equally often, and in between
\* each was made at most once more than the one that follows it.
C11_LoopOrder ==
    /\ IsPrefix(iteration, AcceptedIteration) \/ IsPrefix(iteration, RejectedIteration)
    /\ pc \in {"while", "return"}
          => /\ iteration \in {<< >>, AcceptedIteration, RejectedIteration}
             /\ calls.game_update = calls.game_render
             /\ calls.game_render = calls.tick
             /\ calls.tick = calls.screen_buffer_blit
    /\ calls.game_update >= calls.game_render
    /\ calls.game_render >= calls.tick
    /\ calls.tick >= calls.screen_buffer_blit
    /\ calls.screen_buffer_blit >= calls.game_update - 1

\* C11's case: an iteration whose gate did not pass is over, after two
\* iterations whose gate passed.
C11_Witness ==
    /\ pc = "while"
    /\ iteration = RejectedIteration
    /\ calls.tick = 2
    /\ calls.screen_buffer_blit = 2

\* The calls made so far in the current iteration.
CallsMade == {iteration[i] : i \in 1..Len(iteration)}

\* C14: the delta game_update and game_render are called with, sampled by
\* time_from_last_tick() after should_tick() returned true, is the same for
\* both and at least floor(10^9 / 30) ns; on the first accepted tick, with
\* last_tick_ still 0, it is the clock's value at the moment it was sampled.
C14_DeltaAtLeastInterval ==
    /\ calls.game_update >= 1 => U64Geq(passed.game_update, Interval)
    /\ calls.game_render >= 1 => U64Geq(passed.game_render, Interval)
    /\ "game_update" \in CallsMade => passed.game_update = delta
    /\ "game_render" \in CallsMade => passed.game_render = delta
    /\ (calls.tick = 0 /\ "time_from_last_tick" \in CallsMade)
          => (last_tick_ = U64Zero /\ delta = deltaClock)

\* C14's case: the second accepted tick, taken 34 ms after the first: both
\* callbacks got 34000000 ns, which is not the clock's value.
C14_Witness ==
    /\ calls.game_render = 2
    /\ passed.game_update = U64(34000000)
    /\ passed.game_render = U64(34000000)
    /\ deltaClock # U64(34000000)

\* WM_QUIT waits in the message queue.
QuitQueued == \E i \in 1..Len(queue) : queue[i] = "WM_QUIT"

\* C15: g_run_game starts true, is false exactly from the moment the pump
\* dequeued WM_QUIT and never true again; the loop is never left while no
\* WM_QUIT was dequeued; once WM_QUIT is in the queue the loop dequeues it at
\* some time and _tWinMain returns, after the iteration that dequeued it ran to
\* its end and without starting another one.
C15_LoopTerminates ==
    /\ g_run_game = TRUE
    /\ [](g_run_game = ~quit_dequeued)
    /\ [][~g_run_game => ~g_run_game']_vars
    /\ [](pc = "return" => quit_dequeued)
    /\ [](pc = "return" => iteration \in {AcceptedIteration, RejectedIteration})
    /\ [][(quit_dequeued /\ pc # "pump") => pc' # "pump"]_vars
    /\ QuitQueued ~> (pc = "return")

\* C15's case: _tWinMain returned after an iteration that dequeued WM_QUIT and
\* then ran a whole accepted tick, with messages still left in the queue.
C15_Witness ==
    /\ pc = "return"
    /\ quit_dequeued
    /\ iteration = AcceptedIteration
    /\ queue # << >>

(***************************************************************************)
(* prng.h: several Prng<T> objects on the one PrngSource                   *)
(***************************************************************************)
\* How many Prng<T> objects the program creates.
MaxPrngs == 2

\* How many calls of next() and set_fixed_seed() the Prng<T> objects see.
MaxSharedSteps == 4

\* next() handing a copy of the generator to dis_: the shared gen_ stays as
\* it was.
next_on_copy(dis, gen) ==
    [ values |-> uniform_int_distribution(dis, gen), gen |-> gen ]

\* Prng<T>::next() { return dis_(PrngSource::instance().gen_); } on the
\* generator gen that instance() owns: the values that can come back, and the
\* generator afterwards (dis_ takes it by reference and draws from it).
next(dis, gen) ==
    [ values |-> uniform_int_distribution(dis, gen),
      gen    |-> mt19937_64_advance(gen) ]

InitShared ==
    /\ PrngIdle
    /\ SharedIdle
    /\ TickIdle
    /\ TimeIdle
    /\ MainIdle
    /\ ParticlesIdle

\* What std::random_device yields to the call of instance() made next: it is
\* read by the PrngSource constructor only, that is while the pointer is null.
RandomDevice == IF instance = nullptr THEN Seeds ELSE {0}

\* One more Prng<T> object: Prng<T>::create(max, min).
SharedCreate ==
    /\ Len(prngs) < MaxPrngs
    /\ \E p \in CreateArguments : prngs' = Append(prngs, create(p[1], p[2]))
    /\ UNCHANGED << seeding, draws, prngVars >>
    /\ UNCHANGED restOfShared

\* One more Prng<T> object: Prng<T>::create_with_natural_limits().
SharedCreateWithNaturalLimits ==
    /\ Len(prngs) < MaxPrngs
    /\ prngs' = Append(prngs, create_with_natural_limits)
    /\ UNCHANGED << seeding, draws, prngVars >>
    /\ UNCHANGED restOfShared

\* next() on the k-th Prng<T> object, for any k.
SharedNext ==
    /\ prngSteps < MaxSharedSteps
    /\ \E k \in 1..Len(prngs), entropy \in RandomDevice :
          LET source == instance_(entropy)
              drawn  == next(prngs[k], source.gen)
          IN  /\ instance' = source.instance
              /\ live' = source.live
              /\ built' = source.built
              /\ returned' = source.instance
              /\ firstReturned' =
                     IF firstReturned = nullptr THEN source.instance
                     ELSE firstReturned
              /\ seeding' =
                     IF instance = nullptr
                     THEN [value |-> entropy, fixed |-> FALSE, prngs |-> Len(prngs)]
                     ELSE seeding
              /\ \E v \in drawn.values :
                    /\ lastDraw' = [op |-> "next", dis |-> prngs[k], value |-> v]
                    /\ draws' = Append(draws, [by |-> k, dis |-> prngs[k], value |-> v])
              /\ gen_' = drawn.gen
    /\ prngSteps' = prngSteps + 1
    /\ UNCHANGED << prngs, prng, episode, kept >>
    /\ UNCHANGED restOfShared

\* PrngSource::instance().set_fixed_seed(seed).
SharedSetFixedSeed ==
    /\ prngSteps < MaxSharedSteps
    /\ \E entropy \in RandomDevice, seed \in Seeds :
          LET source == instance_(entropy)
          IN  /\ instance' = source.instance
              /\ live' = source.live
              /\ built' = source.built
              /\ returned' = source.instance
              /\ firstReturned' =
                     IF firstReturned = nullptr THEN source.instance
                     ELSE firstReturned
              /\ gen_' = set_fixed_seed(source.gen, seed)
              /\ seeding' = [value |-> seed, fixed |-> TRUE, prngs |-> Len(prngs)]
    /\ draws' = << >>
    /\ prngSteps' = prngSteps + 1
    /\ UNCHANGED << prngs, prng, lastDraw, episode, kept >>
    /\ UNCHANGED restOfShared

NextShared ==
    \/ SharedCreate
    \/ SharedCreateWithNaturalLimits
    \/ SharedNext
    \/ SharedSetFixedSeed

SpecShared == InitShared /\ [][NextShared]_vars

(***************************************************************************)
(* Claims about the shared generator, checked under SpecShared             *)
(***************************************************************************)
\* The engine seeded with the latest seeding value after n outputs were taken.
SeededAfter(n) == [seed |-> seeding.value, pos |-> n]

\* C12: every next() on any Prng<T> advances the one generator of the
\* PrngSource, so the generator stands at the total number of draws made, by
\* all objects together, since it was last seeded; the i-th of those draws is
\* what its object's distribution yields from the generator after i - 1
\* outputs, whichever objects took them; and the first draw after a
\* set_fixed_seed(seed), by whichever object, comes from the freshly seeded
\* generator.
C12_SharedGenerator ==
    /\ instance # nullptr => gen_ = SeededAfter(Len(draws))
    /\ \A i \in 1..Len(draws) :
          draws[i].value \in uniform_int_distribution(draws[i].dis, SeededAfter(i - 1))

\* C12's case: after a set_fixed_seed the second object, created after the
\* reseed, draws, then the first, then the second again, and the second
\* object's second value is not the one it would have drawn without the first
\* object's draw in between.
C12_Witness ==
    /\ seeding.fixed
    /\ seeding.prngs = 1
    /\ Len(draws) = 3
    /\ draws[1].by = 2
    /\ draws[2].by = 1
    /\ draws[3].by = 2
    /\ draws[3].value \notin uniform_int_distribution(draws[3].dis, SeededAfter(1))

(***************************************************************************)
(* main_win32.cpp: the particles                                           *)
(***************************************************************************)
\* How often particles_update runs in one run.
MaxUpdates == 5

\* The client area screen_buffer_init finds: the smallest ones, and that of
\* the 800 x 600 window _tWinMain creates.
Widths == {1, 2, 3, 784}

Heights == {1, 2, 561}

\* engine::prng::random<T>(max, min = 0): one draw of a one-shot distribution
\* over [min, max] from the shared generator gen; the value drawn and the
\* generator afterwards.  With min <= max exactly one value can come back.
random(max, min, gen) ==
    LET drawn == next(create(max, min), gen)
    IN  [ value |-> CHOOSE v \in drawn.values : TRUE, gen |-> drawn.gen ]

\* argb_create_random(): red, green and blue, drawn in that order.
argb_create_random(gen) ==
    LET red   == random(255, 0, gen)
        green == random(255, 0, red.gen)
        blue  == random(255, 0, green.gen)
    IN  [ value |-> [red |-> red.value, green |-> green.value, blue |-> blue.value],
          gen   |-> blue.gen ]

\* One pass of particles_init's loop body: the particle it stores and the
\* generator afterwards.
particle_init(gen, birth_time) ==
    LET x          == random(width, 0, gen)
        y          == random(height, 0, x.gen)
        velocity_x == random(2, -2, y.gen)
        velocity_y == random(2, -2, velocity_x.gen)
        color      == argb_create_random(velocity_y.gen)
    IN  [ value |-> [ x |-> x.value, y |-> y.value, color |-> color.value,
                      velocity_x |-> velocity_x.value,
                      velocity_y |-> velocity_y.value,
                      birth_time |-> birth_time, flags |-> 0 ],
          gen   |-> color.gen ]

\* particles_init's loop; s is <<i, g_particles, generator>> at the loop's test.
RECURSIVE particles_init_loop(_, _)
particles_init_loop(s, birth_time) ==
    IF s[1] > MAX_PARTICLES THEN s
    ELSE LET particle == particle_init(s[3], birth_time)
         IN  particles_init_loop(
                 << s[1] + 1, [s[2] EXCEPT ![s[1]] = particle.value], particle.gen >>,
                 birth_time)

\* particles_init(screen_buffer) with the generator gen: <<i, g_particles,
\* generator>> as it leaves them.
particles_init(gen) == particles_init_loop(<< 1, g_particles, gen >>, Instant_now)

\* The loop body of particles_update clamping to width and height themselves.
particle_update_clamping_to_size(particle) ==
    LET x == particle.x + particle.velocity_x
        y == particle.y + particle.velocity_y
    IN  [ particle EXCEPT
            !.x = IF x < 0 THEN 0 ELSE IF x >= width THEN width ELSE x,
            !.velocity_x = IF x < 0 \/ x >= width THEN -@ ELSE @,
            !.y = IF y < 0 THEN 0 ELSE IF y >= height THEN height ELSE y,
            !.velocity_y = IF y < 0 \/ y >= height THEN -@ ELSE @ ]

\* The loop body of particles_update: the particle moves by its velocity; past
\* an edge it is put on the edge and the velocity's sign flipped.
particle_update(particle) ==
    LET x == particle.x + particle.velocity_x
        y == particle.y + particle.velocity_y
    IN  [ particle EXCEPT
            !.x = IF x < 0 THEN 0 ELSE IF x >= width THEN width - 1 ELSE x,
            !.velocity_x = IF x < 0 \/ x >= width THEN -@ ELSE @,
            !.y = IF y < 0 THEN 0 ELSE IF y >= height THEN height - 1 ELSE y,
            !.velocity_y = IF y < 0 \/ y >= height THEN -@ ELSE @ ]

\* particles_update().
particles_update == [i \in 1..MAX_PARTICLES |-> particle_update(g_particles[i])]

\* screen_buffer_draw_pixel(screen_buffer, x, y, color): the index of the pixel
\* it writes, or -1 when it returns without writing.
screen_buffer_draw_pixel(x, y) ==
    IF x < 0 \/ x >= width \/ y < 0 \/ y >= height THEN -1 ELSE y * width + x

\* particles_draw(screen_buffer): the pixel index of each particle.
particles_draw ==
    [i \in 1..MAX_PARTICLES |->
        screen_buffer_draw_pixel(g_particles[i].x, g_particles[i].y)]

\* The state after screen_buffer_init(window, g_screen_buffer).
InitParticles ==
    /\ TickIdle
    /\ TimeIdle
    /\ PrngIdle
    /\ MainIdle
    /\ SharedIdle
    /\ width \in Widths
    /\ height \in Heights
    /\ g_particles = [i \in 1..MAX_PARTICLES |-> Particle]
    /\ initialised = FALSE
    /\ updates = 0
    /\ born = << >>
    /\ skipped = 0

\* particles_init(g_screen_buffer); its first draw constructs the PrngSource.
ParticlesInit ==
    /\ ~initialised
    /\ \E entropy \in Seeds :
          LET source == instance_(entropy)
              done   == particles_init(source.gen)
          IN  /\ instance' = source.instance
              /\ live' = source.live
              /\ built' = source.built
              /\ returned' = source.instance
              /\ firstReturned' =
                     IF firstReturned = nullptr THEN source.instance
                     ELSE firstReturned
              /\ g_particles' = done[2]
              /\ gen_' = done[3]
              /\ born' = done[2]
    /\ initialised' = TRUE
    /\ UNCHANGED << width, height, updates, skipped >>
    /\ UNCHANGED << prng, lastDraw, episode, kept, prngSteps >>
    /\ UNCHANGED << tickVars, restOfParticles >>

\* game_update(delta): particles_update().
ParticlesUpdate ==
    /\ initialised
    /\ updates < MaxUpdates
    /\ g_particles' = particles_update
    /\ updates' = updates + 1
    /\ UNCHANGED << width, height, initialised, born, skipped >>
    /\ UNCHANGED << tickVars, prngVars, restOfParticles >>

\* game_render(delta, g_screen_buffer): particles_draw(screen_buffer).
ParticlesDraw ==
    /\ initialised
    /\ skipped' = Cardinality({i \in 1..MAX_PARTICLES : particles_draw[i] = -1})
    /\ UNCHANGED << width, height, g_particles, initialised, updates, born >>
    /\ UNCHANGED << tickVars, prngVars, restOfParticles >>

NextParticles ==
    \/ ParticlesInit
    \/ ParticlesUpdate
    \/ ParticlesDraw

SpecParticles == InitParticles /\ [][NextParticles]_vars

(***************************************************************************)
(* Claims about the particles, checked under SpecParticles                 *)
(***************************************************************************)
\* |v|.
Abs(v) == IF v < 0 THEN -v ELSE v

\* C13: once particles_init and at least one particles_update ran, every one of
\* the 100 particles has 0 <= x <= width - 1 and 0 <= y <= height - 1 and the
\* |velocity_x| and |velocity_y| particles_init gave it; a particles_update
\* flips the sign of a velocity exactly when it clamps the particle to an edge
\* on that axis, and leaves the velocity alone otherwise.
C13_ParticlesInBounds ==
    /\ [](updates >= 1 =>
            \A i \in 1..MAX_PARTICLES :
                /\ 0 <= g_particles[i].x /\ g_particles[i].x <= width - 1
                /\ 0 <= g_particles[i].y /\ g_particles[i].y <= height - 1
                /\ Abs(g_particles[i].velocity_x) = Abs(born[i].velocity_x)
                /\ Abs(g_particles[i].velocity_y) = Abs(born[i].velocity_y))
    /\ [][ updates' = updates + 1 =>
             \A i \in 1..MAX_PARTICLES :
                LET p == g_particles[i]
                    q == g_particles'[i]
                    clamped_x == q.x # p.x + p.velocity_x
                    clamped_y == q.y # p.y + p.velocity_y
                IN  /\ q.velocity_x = IF clamped_x THEN -p.velocity_x ELSE p.velocity_x
                    /\ q.velocity_y = IF clamped_y THEN -p.velocity_y ELSE p.velocity_y
                    /\ clamped_x => q.x \in {0, width - 1}
                    /\ clamped_y => q.y \in {0, height - 1} ]_vars

\* C13's case: after two updates on the 784 x 561 buffer, a particle that
\* particles_init put at x = width, outside the buffer, and that was moving
\* right sits inside it and moves left.
C13_Witness ==
    /\ updates >= 2
    /\ width = 784
    /\ \E i \in 1..MAX_PARTICLES :
          /\ born[i].x = width
          /\ born[i].velocity_x > 0
          /\ g_particles[i].velocity_x < 0
          /\ g_particles[i].x < width - 1

=============================================================================
